---- MODULE Spec2Model ----
(***************************************************************************)
(* Model of the WebSocket worker of sms-client (src/ws/worker.rs,          *)
(* src/ws/connection.rs): the reconnecting, heartbeat-monitoring           *)
(* connection loop driven by a Stop/Reconnect control channel.             *)
(*                                                                         *)
(* Durations are whole seconds.  One step of the model is the code the     *)
(* worker task runs between two suspension points (.await on the           *)
(* handshake, on the session's select!, on the backoff select!).           *)
(***************************************************************************)
EXTENDS Integers, Sequences, FiniteSets, TLC

\* ---------------------------------------------------------------- bounds
MaxAttempts == 3        \* connection attempts explored in one run
MaxQueue == 1           \* commands waiting in the control channel
MaxFrames == 1          \* inbound frames explored in one run
MaxTime == 2            \* seconds of session time explored
MaxSessionFrames == 2   \* inbound frames explored by SpecSession
MaxSessionTime == 5     \* seconds of session time explored by SpecSession
MaxSends == 2           \* commands sent in a behaviour of SpecCommands
MaxPending == 2
\* calls of http_fn followed per paginator
MaxRequests == 3
\* items taken with next before collect_all is called
MaxTaken == 2         \* commands queued at once in SpecCommands

\* ------------------------------------------------------ program constants
GraceSecs == 5
\* the batch limit when none is configured (paginator.rs:46)
DefaultLimit == 50          \* client.rs:86
BackoffCapSecs == 60

\* ------------------------------------------------------------ input sets
ReconnectIntervals == {0, 25, 70}
\* <<ping_interval, ping_timeout>>
PingPolicies == {<<1, 1>>, <<2, 1>>}
\* the heartbeat policies SpecSession explores
SessionPingPolicies == {<<1, 0>>, <<1, 1>>, <<1, 2>>, <<2, 1>>, <<2, 3>>}
\* Option<u32>: None is the empty set, Some(n) is {n}
None == {}
MaxReconnectOptions == {None, {1}}

\* what the peer can answer to a handshake: a stream, an HTTP error status,
\* or a transport (io) error
ConnectAnswers == {"Stream", "Http401", "Http403", "Io"}

\* inbound items of read.next(): tungstenite frames or a read error
Frames == {"TextIncoming", "TextUpdate", "TextInvalid", "Close", "Ping",
           "Pong", "Binary", "ReadError"}

Commands == {"Stop", "Reconnect"}

\* payloads of inbound Ping frames
Payloads == {<<>>, <<1>>}
EmptyPayload == {<<>>}

VARIABLES
    config,             \* WebSocketConfig + callback presence + setup validity
    pc,                 \* "start" | "connecting" | "session" | "backoff" | "done"
    result,             \* return value of run: "none" while running
    reconnect_count,    \* worker.rs:48
    is_connected,       \* shared Arc<RwLock<bool>>
    delay,              \* worker.rs:86, seconds
    control_rx,         \* unbounded mpsc channel, as a sequence
    recv_disabled,      \* the recv branch of the backoff select! is disabled
    waiting_for_pong,   \* worker.rs:124
    last_pong_time,     \* worker.rs:123 (session clock)
    now,                \* session clock, seconds since the handshake
    next_tick,          \* deadline of ping_interval.tick()
    rx_count,           \* frames read in this run
    last_answer,        \* answer of the last finished handshake
    last_outcome,       \* what ended the last attempt
    attempts,           \* history: connect() calls started
    handshakes_ok,      \* history: successful handshakes
    sessions_ended,     \* history: sessions that returned
    handshakes_failed,  \* history: non-401 handshake failures
    log,                \* history: callback invocations, in order
    stop_sent,          \* history: a Stop was placed on the channel
    stop_in_wait,       \* history: a Stop was placed during this backoff wait
    pings_unanswered,   \* history: pings sent since the last pong (session)
    first_ping,         \* history: when the oldest of them was sent, or -1
    rx_log,             \* history: text frames read, in order
    last_io,            \* history: frame read and write.send result of the
                        \* last session step; for a Ping frame its payload
                        \* and the payload of the Pong written
    control_tx,         \* WebSocketClient::control_tx: "None" | "Some"
    worker_handle,      \* WebSocketClient::worker_handle: "None" | "Some"
    client_pc,          \* the call holding the write guard of Client::ws_client
                        \* across an await: "ready" when there is none
    op,                 \* history: the last client call that returned
    stop_returned,      \* history: stop_background returned, no start since
    sent_log,           \* history: commands sent and where the worker was,
                        \* kept by the specifications that bound their number
    orphans,            \* history: workers left running by a stop_background
                        \* that timed out, when the next worker was spawned
    paginator,          \* HttpPaginator (paginator.rs:8-16)
    http_log,           \* history: the calls of http_fn, the items received
                        \* and the results of next
    collect,            \* the call of collect_all: its progress and result
    reader              \* a response given to read_http_response, and the
                        \* result

vars == <<config, pc, result, reconnect_count, is_connected, delay,
          control_rx, recv_disabled, waiting_for_pong, last_pong_time, now,
          next_tick, rx_count, last_answer, last_outcome, attempts,
          handshakes_ok, sessions_ended, handshakes_failed, log, stop_sent,
          stop_in_wait, pings_unanswered, first_ping, rx_log, last_io,
          control_tx, worker_handle, client_pc, op, stop_returned, sent_log,
          orphans, paginator, http_log, collect, reader>>

\* the state of the HTTP side
httpVars == <<paginator, http_log, collect, reader>>

\* what the worker task never writes
appVars == <<control_tx, worker_handle, client_pc, op, stop_returned, sent_log,
            orphans, httpVars>>

NoOp == [name |-> "none", result |-> "none", k |-> 0]
\* the record of a call that returns; k alternates so that every return shows
Returned(call, value) == [name |-> call, result |-> value, k |-> 1 - op.k]

sessionVars == <<waiting_for_pong, last_pong_time, now, next_tick,
                 pings_unanswered, first_ping>>

NoIo == [frame |-> "none", sent |-> "none", data |-> <<>>, pong |-> "none"]
Io(frame, sent) ==
    [frame |-> frame, sent |-> IF sent THEN "ok" ELSE "failed",
     data |-> <<>>, pong |-> "none"]
histCounters == <<handshakes_ok, sessions_ended, handshakes_failed>>

Min(a, b) == IF a < b THEN a ELSE b

\* ----------------------------------------------------------- configuration
Setups == {"ok", "UrlError", "InvalidHeader", "TLSError"}

ConfigSpace ==
    [ auto_reconnect : BOOLEAN,
      reconnect_interval : ReconnectIntervals,
      ping_interval : {p[1] : p \in PingPolicies},
      ping_timeout : {p[2] : p \in PingPolicies},
      max_reconnect_attempts : MaxReconnectOptions,
      callback : BOOLEAN,
      setup : Setups ]

\* the intervals the side cases are explored with
ReferenceConfig(c) ==
    /\ c.reconnect_interval = 25
    /\ c.ping_interval = 1
    /\ c.ping_timeout = 1

\* The configurations explored: every retry policy, interval and ping policy
\* with a callback and no attempt ceiling; the ceiling, the absent callback
\* and the setup errors on the reference intervals.
Configs ==
    { c \in ConfigSpace :
        /\ <<c.ping_interval, c.ping_timeout>> \in PingPolicies
        /\ c.max_reconnect_attempts # None =>
              (ReferenceConfig(c) /\ c.callback /\ c.setup = "ok")
        /\ ~c.callback => (ReferenceConfig(c) /\ c.setup = "ok")
        /\ c.setup # "ok" => (ReferenceConfig(c) /\ c.auto_reconnect) }

\* variant: the descriptor is not validated before the loop
from_config_unchecked(c) == "ok"

\* ConnectionParams::from_config: Ok or the first error met
from_config(c) == c.setup

\* ------------------------------------------------------------- callback
\* variant: the reconnect field is never set
StatusEvent_noretry(connected, reconnect, flag) ==
    [src |-> "local", type |-> "WebsocketConnectionUpdate",
     connected |-> connected, reconnect |-> FALSE, flag |-> flag]

StatusEvent(connected, reconnect, flag) ==
    [src |-> "local", type |-> "WebsocketConnectionUpdate",
     connected |-> connected, reconnect |-> reconnect, flag |-> flag]

WireEvent(type, flag) ==
    [src |-> "wire", type |-> type,
     connected |-> TRUE, reconnect |-> FALSE, flag |-> flag]

\* variant: every status event says connected
emit_connection_update_stuck(l, connected, reconnect, flag) ==
    IF config.callback
    THEN Append(l, StatusEvent(TRUE, reconnect, flag))
    ELSE l

\* WorkerLoop::emit_connection_update; flag is is_connected at the call
emit_connection_update(l, connected, reconnect, flag) ==
    IF config.callback
    THEN Append(l, StatusEvent(connected, reconnect, flag))
    ELSE l

\* serde_json::from_str::<WebsocketMessage>: the variant tag, or "Err"
from_str(frame) ==
    CASE frame = "TextIncoming" -> "incoming"
      [] frame = "TextUpdate" -> "WebsocketConnectionUpdate"
      [] OTHER -> "Err"

\* variant: the callback is invoked twice for a decoded message
process_text_message_twice(l, frame, flag) ==
    IF from_str(frame) # "Err" /\ config.callback
    THEN l \o <<WireEvent(from_str(frame), flag), WireEvent(from_str(frame), flag)>>
    ELSE l

\* WorkerLoop::process_text_message
process_text_message(l, frame, flag) ==
    IF from_str(frame) # "Err" /\ config.callback
    THEN Append(l, WireEvent(from_str(frame), flag))
    ELSE l

\* ------------------------------------------------------------ connection
\* variant: the 401 check of connection.rs:103-107 is missing
handle_connection_error_no401(answer) == "ConnectionError"

handle_connection_error(answer) ==
    IF answer = "Http401" THEN "Unauthorized" ELSE "ConnectionError"

\* --------------------------------------------------------------- backoff
\* variant: the cap of worker.rs:88 is missing
BackoffDelay_nocap(count) == config.reconnect_interval * count

BackoffDelay(count) ==
    Min(config.reconnect_interval * count, BackoffCapSecs)

\* variant: the Ok arm ignores the auto_reconnect policy
WillReconnectOk_nopolicy(should_reconnect) == should_reconnect

\* will_reconnect of the Ok arm (worker.rs:58)
WillReconnectOk(should_reconnect) == should_reconnect /\ config.auto_reconnect

\* variant: a failed handshake is never retried
WillReconnectErr_never == FALSE

\* will_reconnect of the Err arm (worker.rs:72)
WillReconnectErr == config.auto_reconnect

\* variant: the counter is assigned instead of incremented
NextCount_assign(count) == 1

\* reconnect_count after an attempt that will be retried (worker.rs:64,79)
NextCount(count) == count + 1

\* variant: the write of worker.rs:83 is missing
FlagBeforeBackoff_kept == is_connected

\* is_connected after the retry decision (worker.rs:83)
FlagBeforeBackoff == FALSE

ResetSession ==
    /\ waiting_for_pong' = FALSE
    /\ last_pong_time' = 0
    /\ now' = 0
    /\ next_tick' = 0
    /\ pings_unanswered' = 0
    /\ first_ping' = -1

\* The match of run (worker.rs:55-99) on what handle_connection returned,
\* up to the next suspension point.  outcome.kind is "Ok" (with
\* should_reconnect) or "Err" (with error).
RunMatch(outcome, q) ==
    /\ control_rx' = q
    /\ ResetSession
    /\ IF outcome.kind = "Err" /\ outcome.error = "Unauthorized"
       THEN /\ pc' = "done"
            /\ result' = "Unauthorized"
            /\ UNCHANGED <<log, reconnect_count, is_connected, delay,
                           recv_disabled>>
       ELSE LET will_reconnect ==
                    IF outcome.kind = "Ok"
                    THEN WillReconnectOk(outcome.should_reconnect)
                    ELSE WillReconnectErr
            IN /\ log' = emit_connection_update(log, FALSE, will_reconnect,
                                                is_connected)
               /\ IF ~will_reconnect
                  THEN /\ pc' = "done"
                       /\ result' = "Ok"
                       /\ is_connected' = FALSE
                       /\ UNCHANGED <<reconnect_count, delay, recv_disabled>>
                  ELSE /\ reconnect_count' = NextCount(reconnect_count)
                       /\ is_connected' = FlagBeforeBackoff
                       /\ delay' = BackoffDelay(reconnect_count')
                       /\ pc' = "backoff"
                       /\ recv_disabled' = FALSE
                       /\ result' = result
    /\ stop_in_wait' = FALSE
    /\ UNCHANGED appVars

OkOutcome(should_reconnect, why) ==
    [kind |-> "Ok", should_reconnect |-> should_reconnect,
     error |-> "none", why |-> why]
ErrOutcome(error, why) ==
    [kind |-> "Err", should_reconnect |-> FALSE, error |-> error, why |-> why]

\* ------------------------------------------------------------ paginator
\* Option<u64>: Some(n) is {n}
Some(n) == {n}
unwrap_or(o, d) == IF o = None THEN d ELSE CHOOSE n \in o : TRUE

\* HttpPaginator::new (paginator.rs:45-57)
new(pagination) ==
    [pagination |-> pagination,
     current_batch |-> <<>>,
     current_index |-> 0,
     has_more |-> TRUE,
     initial_limit |-> unwrap_or(pagination.limit, DefaultLimit)]

\* a result of http_fn: Err, or Ok with the items of the batch
ErrResponse == [ok |-> FALSE, items |-> <<>>]
OkResponse(items) == [ok |-> TRUE, items |-> items]

\* variant: only a batch larger than the limit promises more
HasMoreAfter_strict(received_count, initial_limit) ==
    received_count > initial_limit

\* has_more after a batch (paginator.rs:94)
HasMoreAfter(received_count, initial_limit) ==
    received_count >= initial_limit

\* variant: the offset restarts from the size of the last batch
NextOffset_restart(offset, received_count) == Some(received_count)

\* the offset for the next request (paginator.rs:106-111)
NextOffset(offset, received_count) ==
    IF offset # None
    THEN Some(unwrap_or(offset, 0) + received_count)
    ELSE Some(received_count)

\* variant: a failed request ends the pagination
AfterFailedFetch_stops(self) == [self EXCEPT !.has_more = FALSE]

\* the `?` of paginator.rs:91 returns before any field is written
AfterFailedFetch(self) == self

\* HttpPaginator::fetch_next_batch (paginator.rs:90-114) with the result of
\* http_fn: the paginator afterwards and the value returned
fetch_next_batch(self, response) ==
    IF ~response.ok
    THEN [self |-> AfterFailedFetch(self), ret |-> "Err"]
    ELSE LET received_count == Len(response.items) IN
         IF received_count = 0
         THEN [self |-> [self EXCEPT !.has_more = FALSE], ret |-> "OkFalse"]
         ELSE [self |-> [self EXCEPT
                           !.has_more = HasMoreAfter(received_count,
                                                     self.initial_limit),
                           !.current_batch = response.items,
                           !.current_index = 0,
                           !.pagination.offset =
                               NextOffset(@, received_count)],
               ret |-> "OkTrue"]

\* the end of next (paginator.rs:148-153)
remove_first(self) ==
    IF self.current_index < Len(self.current_batch)
    THEN [self |-> [self EXCEPT !.current_batch = Tail(@)],
          item |-> Some(Head(self.current_batch))]
    ELSE [self |-> self, item |-> None]

\* next calls http_fn (paginator.rs:135-141)
Fetches(self) ==
    self.current_index >= Len(self.current_batch) /\ self.has_more

\* HttpPaginator::next (paginator.rs:134-154); response is what http_fn
\* answers if it is called
next(self, response) ==
    IF Fetches(self)
    THEN LET f == fetch_next_batch(self, response) IN
         IF f.ret = "OkTrue" THEN remove_first(f.self)
         ELSE [self |-> f.self, item |-> None]
    ELSE remove_first(self)

\* HttpPaginator::has_more (paginator.rs:248-250)
has_more(self) ==
    self.has_more \/ self.current_index < Len(self.current_batch)

\* no paginator, no call of collect_all, no response read
NoLog == [requests |-> <<>>, fetched |-> <<>>, returned |-> <<>>,
          last |-> [item |-> None, k |-> 0]]
NoCollect == [state |-> "idle", items |-> <<>>, failed |-> FALSE]
NoRead == [response |-> "none", result |-> [kind |-> "none"]]
HttpIdle ==
    /\ paginator = new([limit |-> None, offset |-> None])
    /\ http_log = NoLog
    /\ collect = NoCollect
    /\ reader = NoRead

\* --------------------------------------------------------------- actions
Init ==
    /\ config \in Configs
    /\ pc = "start"
    /\ result = "none"
    /\ reconnect_count = 0
    /\ is_connected = FALSE
    /\ delay = 0
    /\ control_rx = <<>>
    /\ recv_disabled = FALSE
    /\ waiting_for_pong = FALSE
    /\ last_pong_time = 0
    /\ now = 0
    /\ next_tick = 0
    /\ rx_count = 0
    /\ last_answer = "none"
    /\ last_outcome = "none"
    /\ attempts = 0
    /\ handshakes_ok = 0
    /\ sessions_ended = 0
    /\ handshakes_failed = 0
    /\ log = <<>>
    /\ stop_sent = FALSE
    /\ stop_in_wait = FALSE
    /\ pings_unanswered = 0
    /\ first_ping = -1
    /\ rx_log = <<>>
    /\ last_io = NoIo
    /\ control_tx = "Some"
    /\ worker_handle = "Some"
    /\ client_pc = "ready"
    /\ op = NoOp
    /\ stop_returned = FALSE
    /\ sent_log = <<>>
    /\ orphans = 0
    /\ HttpIdle

\* run, from its entry to the first handshake (worker.rs:48-55,114)
RunStart ==
    /\ pc = "start"
    /\ IF from_config(config) # "ok"
       THEN /\ pc' = "done"
            /\ result' = from_config(config)
            /\ UNCHANGED attempts
       ELSE /\ pc' = "connecting"
            /\ attempts' = attempts + 1
            /\ UNCHANGED result
    /\ UNCHANGED <<config, reconnect_count, is_connected, delay, control_rx,
                   recv_disabled, sessionVars, rx_count, last_answer, last_outcome,
                   histCounters, log, stop_sent, stop_in_wait, rx_log, last_io,
                   appVars>>

\* connection_params.connect() returns a stream (worker.rs:114-126)
ConnectOk ==
    /\ pc = "connecting"
    /\ pc' = "session"
    /\ last_answer' = "Stream"
    /\ is_connected' = TRUE
    /\ log' = emit_connection_update(log, TRUE, FALSE, TRUE)
    /\ handshakes_ok' = handshakes_ok + 1
    /\ ResetSession
    /\ UNCHANGED <<config, result, reconnect_count, delay, control_rx,
                   recv_disabled, last_outcome, rx_count, attempts, sessions_ended,
                   handshakes_failed, stop_sent, stop_in_wait, rx_log, last_io,
                   appVars>>

\* connection_params.connect() fails (connection.rs:85-109, worker.rs:66-99)
ConnectFail ==
    /\ pc = "connecting"
    /\ \E answer \in ConnectAnswers \ {"Stream"} :
        /\ last_answer' = answer
        /\ last_outcome' = "handshake"
        /\ handshakes_failed' =
              IF answer = "Http401" THEN handshakes_failed
              ELSE handshakes_failed + 1
        /\ RunMatch(ErrOutcome(handle_connection_error(answer), "handshake"),
                    control_rx)
    /\ UNCHANGED <<config, attempts, handshakes_ok, sessions_ended, stop_sent,
                   rx_count, rx_log, last_io>>

\* variant: a close frame or a read error does not end the session
handle_message_closeignored(frame, sent) ==
    IF frame = "Ping" /\ ~sent THEN "SendError" ELSE "Continue"

\* WorkerLoop::handle_message (worker.rs:166-193): the MessageAction, or the
\* error; sent tells whether write.send of the Pong succeeded
handle_message(frame, sent) ==
    CASE frame \in {"TextIncoming", "TextUpdate", "TextInvalid"} -> "Continue"
      [] frame = "Close" -> "Reconnect"
      [] frame = "Ping" -> IF sent THEN "Continue" ELSE "SendError"
      [] frame = "Pong" -> "Continue"
      [] frame = "ReadError" -> "Reconnect"
      [] OTHER -> "Continue"

\* variant: the Pong goes out with an empty payload
PongFor_empty(data) == <<>>

\* the payload of the Pong written for a Ping (worker.rs:175-177)
PongFor(data) == data

\* variant: the heartbeat never gives up
should_send_ping_never(waiting, last_pong, t) == TRUE

\* variant: the timeout comparison is >= instead of >
should_send_ping_ge(waiting, last_pong, t) ==
    ~(waiting /\ (t - last_pong) >= config.ping_timeout)

\* WorkerLoop::should_send_ping (worker.rs:211-226)
should_send_ping(waiting, last_pong, t) ==
    ~(waiting /\ (t - last_pong) > config.ping_timeout)

\* variant: a failed close frame turns a Stop into a reconnect
handle_control_message_sendfail(msg, sent) == msg = "Reconnect" \/ ~sent

\* WorkerLoop::handle_control_message (worker.rs:237-248): should_reconnect;
\* sent tells whether write.send of the Close succeeded (its result is dropped)
handle_control_message(msg, sent) == msg = "Reconnect"

\* variant: any inbound frame counts as a sign of life
ResetsHeartbeat_any(frame) == frame # "ReadError"

\* the frames whose arm writes last_pong_time and waiting_for_pong
\* (worker.rs:182-187)
ResetsHeartbeat(frame) == frame = "Pong"

\* the frames handed to process_text_message (worker.rs:167-170)
IsText(frame) == frame \in {"TextIncoming", "TextUpdate", "TextInvalid"}

\* tokio interval with MissedTickBehavior::Skip: the deadline after a tick
\* that fired at t for deadline d
NextTick(d, t) ==
    d + (((t - d) \div config.ping_interval) + 1) * config.ping_interval

\* a session returns to run (worker.rs:55)
SessionEnd(outcome, q, n) ==
    /\ sessions_ended' = sessions_ended + 1
    /\ last_outcome' = outcome.why
    /\ RunMatch(outcome, q)
    /\ rx_count' = rx_count + n
    /\ UNCHANGED <<config, last_answer, attempts, handshakes_ok,
                   handshakes_failed, stop_sent>>

SessionContinue ==
    /\ UNCHANGED <<config, pc, result, reconnect_count, is_connected, delay,
                   control_rx, recv_disabled, last_answer, last_outcome,
                   attempts, histCounters, stop_sent, stop_in_wait, appVars>>

\* select! branch read.next() (worker.rs:129-134), at most maxFrames frames,
\* the Ping frames with a payload of payloads
RecvFrameP(maxFrames, payloads) ==
    /\ pc = "session"
    /\ rx_count < maxFrames
    /\ \E frame \in Frames, sent \in BOOLEAN, data \in payloads :
        LET action == handle_message(frame, sent) IN
        /\ (frame # "Ping") => (sent /\ data = <<>>)
        /\ last_io' = IF frame = "Ping"
                      THEN [Io(frame, sent) EXCEPT !.data = data,
                                                   !.pong = PongFor(data)]
                      ELSE [NoIo EXCEPT !.frame = frame]
        /\ rx_log' = IF IsText(frame) THEN Append(rx_log, frame) ELSE rx_log
        /\ CASE action = "Continue" ->
                  /\ log' = IF IsText(frame)
                            THEN process_text_message(log, frame, is_connected)
                            ELSE log
                  /\ waiting_for_pong' =
                        IF ResetsHeartbeat(frame) THEN FALSE
                        ELSE waiting_for_pong
                  /\ last_pong_time' =
                        IF ResetsHeartbeat(frame) THEN now ELSE last_pong_time
                  /\ pings_unanswered' =
                        IF frame = "Pong" THEN 0 ELSE pings_unanswered
                  /\ first_ping' = IF frame = "Pong" THEN -1 ELSE first_ping
                  /\ rx_count' = rx_count + 1
                  /\ UNCHANGED <<now, next_tick>>
                  /\ SessionContinue
             [] action = "Reconnect" ->
                  SessionEnd(OkOutcome(TRUE, frame), control_rx, 1)
             [] action = "SendError" ->
                  SessionEnd(ErrOutcome("SendError", "pong_send"), control_rx, 1)

RecvFrameN(maxFrames) == RecvFrameP(maxFrames, EmptyPayload)

RecvFrame == RecvFrameN(MaxFrames)

\* select! branch ping_interval.tick() (worker.rs:136-146)
HeartbeatTick ==
    /\ pc = "session"
    /\ now >= next_tick
    /\ UNCHANGED rx_log
    /\ IF should_send_ping(waiting_for_pong, last_pong_time, now)
       THEN \E sent \in BOOLEAN :
              /\ last_io' = Io("none", sent)
              /\ IF sent
                 THEN /\ waiting_for_pong' = TRUE
                      /\ next_tick' = NextTick(next_tick, now)
                      /\ pings_unanswered' = pings_unanswered + 1
                      /\ first_ping' = IF first_ping = -1 THEN now
                                       ELSE first_ping
                      /\ UNCHANGED <<last_pong_time, now, rx_count, log>>
                      /\ SessionContinue
                 ELSE SessionEnd(OkOutcome(TRUE, "ping_send"), control_rx, 0)
       ELSE /\ last_io' = NoIo
            /\ SessionEnd(OkOutcome(TRUE, "ping_timeout"), control_rx, 0)

\* select! branch control_rx.recv() of the session (worker.rs:148-150)
SessionControl ==
    /\ pc = "session"
    /\ control_rx # <<>>
    /\ UNCHANGED rx_log
    /\ \E sent \in BOOLEAN :
        /\ last_io' = Io("none", sent)
        /\ SessionEnd(OkOutcome(handle_control_message(Head(control_rx), sent),
                                Head(control_rx)),
                      Tail(control_rx), 0)

\* session time passes up to maxTime; a due heartbeat tick fires before time
\* moves on
AdvanceN(maxTime) ==
    /\ pc = "session"
    /\ now < maxTime
    /\ now < next_tick
    /\ now' = now + 1
    /\ UNCHANGED <<waiting_for_pong, last_pong_time, next_tick, rx_count, log,
                   pings_unanswered, first_ping, rx_log, last_io>>
    /\ SessionContinue

Advance == AdvanceN(MaxTime)

\* variant: the recv branch of the backoff select! matches no command
BackoffPatternMatches_none(msg) == FALSE

\* the pattern of the recv branch of the backoff select! (worker.rs:95)
BackoffPatternMatches(msg) == msg = "Stop"

\* select! branch sleep(delay) of the backoff wait (worker.rs:94), then the
\* next iteration of the loop up to connect (worker.rs:55,114)
BackoffSleepElapsed ==
    /\ pc = "backoff"
    /\ attempts < MaxAttempts
    /\ pc' = "connecting"
    /\ attempts' = attempts + 1
    /\ recv_disabled' = FALSE
    /\ stop_in_wait' = FALSE
    /\ last_answer' = "none"
    /\ last_outcome' = "none"
    /\ last_io' = NoIo
    /\ UNCHANGED <<config, result, reconnect_count, is_connected, delay,
                   control_rx, sessionVars, rx_count, histCounters, log,
                   stop_sent, rx_log, appVars>>

\* select! branch control_rx.recv() of the backoff wait (worker.rs:95-98):
\* a message that does not match the pattern is consumed and disables the
\* branch for the rest of this select!
BackoffRecv ==
    /\ pc = "backoff"
    /\ ~recv_disabled
    /\ control_rx # <<>>
    /\ control_rx' = Tail(control_rx)
    /\ IF BackoffPatternMatches(Head(control_rx))
       THEN /\ pc' = "done"
            /\ result' = "Ok"
            /\ is_connected' = FALSE
            /\ last_outcome' = "stop_in_backoff"
            /\ UNCHANGED recv_disabled
       ELSE /\ recv_disabled' = TRUE
            /\ UNCHANGED <<pc, result, is_connected, last_outcome>>
    /\ UNCHANGED <<config, reconnect_count, delay, sessionVars, rx_count, last_answer,
                   attempts, histCounters, log, stop_sent, stop_in_wait,
                   rx_log, last_io, appVars>>

\* the application sends a command (client.rs:81,103,115)
SendN(cmd, maxQueue) ==
    /\ Len(control_rx) < maxQueue
    /\ control_rx' = Append(control_rx, cmd)
    /\ stop_sent' = (stop_sent \/ cmd = "Stop")
    /\ stop_in_wait' = (stop_in_wait \/ (cmd = "Stop" /\ pc = "backoff"))
    /\ UNCHANGED <<config, pc, result, reconnect_count, is_connected, delay,
                   recv_disabled, sessionVars, rx_count, last_answer, last_outcome,
                   attempts, histCounters, log, rx_log, last_io>>

Send(cmd) == SendN(cmd, MaxQueue)

SendCommand ==
    /\ pc # "done"
    /\ \E cmd \in Commands : Send(cmd)
    /\ UNCHANGED appVars

Next ==
    \/ RunStart
    \/ ConnectOk
    \/ ConnectFail
    \/ RecvFrame
    \/ HeartbeatTick
    \/ SessionControl
    \/ Advance
    \/ BackoffSleepElapsed
    \/ BackoffRecv
    \/ SendCommand

Spec == Init /\ [][Next]_vars

\* The same worker when the task is polled as soon as a command is queued:
\* the sleep of the backoff wait completes only while no command is waiting
\* for a recv branch that is still enabled.  Every behaviour of SpecPrompt
\* is a behaviour of Spec.
BackoffSleepElapsedPrompt ==
    /\ recv_disabled \/ control_rx = <<>>
    /\ BackoffSleepElapsed

NextPrompt ==
    \/ RunStart
    \/ ConnectOk
    \/ ConnectFail
    \/ RecvFrame
    \/ HeartbeatTick
    \/ SessionControl
    \/ Advance
    \/ BackoffSleepElapsedPrompt
    \/ BackoffRecv
    \/ SendCommand

SpecPrompt == Init /\ [][NextPrompt]_vars

\* One session on its own, with more heartbeat policies, frames and time.
\* The configurations of a session: every retry policy and heartbeat policy,
\* with a callback
SessionConfigs ==
    { c \in [ auto_reconnect : BOOLEAN,
              reconnect_interval : {25},
              ping_interval : {p[1] : p \in SessionPingPolicies},
              ping_timeout : {p[2] : p \in SessionPingPolicies},
              max_reconnect_attempts : {None},
              callback : {TRUE},
              setup : {"ok"} ] :
        <<c.ping_interval, c.ping_timeout>> \in SessionPingPolicies }

\* handle_connection right after the first handshake (worker.rs:116-124):
\* the state RunStart and ConnectOk lead to
InitSession ==
    /\ config \in SessionConfigs
    /\ pc = "session"
    /\ result = "none"
    /\ reconnect_count = 0
    /\ is_connected = TRUE
    /\ delay = 0
    /\ control_rx = <<>>
    /\ recv_disabled = FALSE
    /\ waiting_for_pong = FALSE
    /\ last_pong_time = 0
    /\ now = 0
    /\ next_tick = 0
    /\ rx_count = 0
    /\ last_answer = "Stream"
    /\ last_outcome = "none"
    /\ attempts = 1
    /\ handshakes_ok = 1
    /\ sessions_ended = 0
    /\ handshakes_failed = 0
    /\ log = emit_connection_update(<<>>, TRUE, FALSE, TRUE)
    /\ stop_sent = FALSE
    /\ stop_in_wait = FALSE
    /\ pings_unanswered = 0
    /\ first_ping = -1
    /\ rx_log = <<>>
    /\ last_io = NoIo
    /\ control_tx = "Some"
    /\ worker_handle = "Some"
    /\ client_pc = "ready"
    /\ op = NoOp
    /\ stop_returned = FALSE
    /\ sent_log = <<>>
    /\ orphans = 0
    /\ HttpIdle

SessionRecvFrame == RecvFrameP(MaxSessionFrames, Payloads)

SessionAdvance == AdvanceN(MaxSessionTime)

\* the application sends a command while the session runs
SessionSendCommand ==
    /\ pc = "session"
    /\ SendCommand

NextSession ==
    \/ SessionRecvFrame
    \/ HeartbeatTick
    \/ SessionControl
    \/ SessionAdvance
    \/ SessionSendCommand

SpecSession == InitSession /\ [][NextSession]_vars


\* The worker with a silent peer and an application that sends at most
\* MaxSends commands; sent_log keeps each command with the place of the
\* worker and the number of the attempt at the time it was sent.  The sleep of
\* the backoff wait completes as in SpecPrompt.
CommandConfigs ==
    { c \in Configs :
        /\ ReferenceConfig(c) /\ c.callback /\ c.setup = "ok"
        /\ c.max_reconnect_attempts = None }

InitCommands ==
    /\ Init
    /\ config \in CommandConfigs

\* the application sends a command (client.rs:81,103,115)
SendLogged ==
    /\ pc # "done"
    /\ Len(sent_log) < MaxSends
    /\ \E cmd \in Commands :
        /\ SendN(cmd, MaxPending)
        /\ sent_log' = Append(sent_log,
                              [cmd |-> cmd, at |-> pc, n |-> attempts])
    /\ UNCHANGED <<control_tx, worker_handle, client_pc, op, stop_returned,
                   orphans, httpVars>>

NextCommands ==
    \/ RunStart
    \/ ConnectOk
    \/ ConnectFail
    \/ HeartbeatTick
    \/ SessionControl
    \/ Advance
    \/ BackoffSleepElapsedPrompt
    \/ BackoffRecv
    \/ SendLogged

SpecCommands == InitCommands /\ [][NextCommands]_vars

\* select! polls a ready branch, a pending connect() returns, a sleep ends
FairCommands ==
    /\ WF_vars(RunStart)
    /\ WF_vars(ConnectOk \/ ConnectFail)
    /\ WF_vars(SessionControl)
    /\ WF_vars(BackoffRecv)
    /\ WF_vars(BackoffSleepElapsedPrompt)

SpecCommandsFair == SpecCommands /\ FairCommands

\* ----------------------------------------------------------------- client
\* Client (lib.rs) with its WebSocketClient (client.rs), created by
\* on_message, and the worker it starts.  The model follows one worker at a
\* time, the one the client's handle and sender belong to.  A worker that
\* outlives a stop_background is followed until the next worker is spawned
\* and from then on only counted (orphans).  The peer is silent and the
\* sessions are followed up to their first heartbeat.
ClientConfigs ==
    { c \in Configs :
        /\ ReferenceConfig(c) /\ c.callback
        /\ c.max_reconnect_attempts = None }

\* WebSocketClient::new (client.rs:18-30); pc = "idle": no worker task yet
WebSocketClientNew ==
    /\ pc = "idle"
    /\ result = "none"
    /\ reconnect_count = 0
    /\ is_connected = FALSE
    /\ delay = 0
    /\ control_rx = <<>>
    /\ recv_disabled = FALSE
    /\ waiting_for_pong = FALSE
    /\ last_pong_time = 0
    /\ now = 0
    /\ next_tick = 0
    /\ rx_count = 0
    /\ last_answer = "none"
    /\ last_outcome = "none"
    /\ attempts = 0
    /\ handshakes_ok = 0
    /\ sessions_ended = 0
    /\ handshakes_failed = 0
    /\ log = <<>>
    /\ stop_sent = FALSE
    /\ stop_in_wait = FALSE
    /\ pings_unanswered = 0
    /\ first_ping = -1
    /\ rx_log = <<>>
    /\ last_io = NoIo
    /\ control_tx = "None"
    /\ worker_handle = "None"
    /\ client_pc = "ready"
    /\ op = NoOp
    /\ stop_returned = FALSE
    /\ sent_log = <<>>
    /\ orphans = 0

InitClient ==
    /\ config \in ClientConfigs
    /\ WebSocketClientNew
    /\ HttpIdle

\* the receiver of the channel lives as long as run does (worker.rs:44)
ReceiverAlive == pc \notin {"idle", "done"}

\* unbounded_channel() and WorkerLoop::new(...).run(control_rx)
\* (client.rs:46-56, 64-75)
Spawn ==
    /\ pc \in {"idle", "done"} \/ control_tx = "None"
    /\ attempts < MaxAttempts
    /\ orphans' = IF pc \in {"idle", "done"} THEN orphans ELSE orphans + 1
    /\ pc' = "start"
    /\ result' = "none"
    /\ reconnect_count' = 0
    /\ delay' = 0
    /\ control_rx' = <<>>
    /\ recv_disabled' = FALSE
    /\ ResetSession
    /\ last_answer' = "none"
    /\ last_outcome' = "none"
    /\ last_io' = NoIo
    /\ stop_sent' = FALSE
    /\ stop_in_wait' = FALSE
    /\ control_tx' = "Some"
    /\ stop_returned' = FALSE
    /\ UNCHANGED <<config, is_connected, rx_count, attempts, histCounters,
                   log, rx_log, sent_log, httpVars>>

\* everything but the record of the call stays
OnlyReturns ==
    UNCHANGED <<config, pc, result, reconnect_count, is_connected, delay,
                control_rx, recv_disabled, sessionVars, rx_count, last_answer,
                last_outcome, attempts, histCounters, log, stop_sent,
                stop_in_wait, rx_log, last_io, control_tx, worker_handle,
                client_pc, stop_returned, sent_log, orphans, httpVars>>

\* variant: the check of client.rs:42-44 is missing
start_background_result_unchecked == "Ok"

\* what start_background returns (client.rs:42-44,59)
start_background_result ==
    IF worker_handle = "Some" THEN "AlreadyConnected" ELSE "Ok"

\* Client::start_background_websocket (lib.rs:149-156, client.rs:41-60)
StartBackground ==
    /\ client_pc = "ready"
    /\ op' = Returned("start_background", start_background_result)
    /\ IF start_background_result = "Ok"
       THEN /\ Spawn
            /\ worker_handle' = "Some"
            /\ UNCHANGED client_pc
       ELSE OnlyReturns

\* Client::start_blocking_websocket up to the await of run
\* (lib.rs:159-163, client.rs:63-75): the write guard stays held
StartBlocking ==
    /\ client_pc = "ready"
    /\ Spawn
    /\ client_pc' = "blocking"
    /\ UNCHANGED <<worker_handle, op>>

\* run returns to start_blocking (client.rs:75, lib.rs:163-165)
BlockingReturn ==
    /\ client_pc = "blocking"
    /\ pc = "done"
    /\ client_pc' = "ready"
    /\ op' = Returned("start_blocking", result)
    /\ UNCHANGED <<config, pc, result, reconnect_count, is_connected, delay,
                   control_rx, recv_disabled, sessionVars, rx_count,
                   last_answer, last_outcome, attempts, histCounters, log,
                   stop_sent, stop_in_wait, rx_log, last_io, control_tx,
                   worker_handle, stop_returned, sent_log, orphans, httpVars>>

\* the end of stop_background (client.rs:89-92)
StopReturns ==
    /\ control_tx' = "None"
    /\ is_connected' = FALSE
    /\ client_pc' = "ready"
    /\ stop_returned' = TRUE
    /\ op' = Returned("stop_background", "Ok")

\* Client::stop_background_websocket up to the await of the handle
\* (lib.rs:170-174, client.rs:79-86)
StopBegin ==
    /\ client_pc = "ready"
    /\ Len(control_rx) < MaxPending
    /\ IF control_tx = "Some" /\ ReceiverAlive
       THEN /\ control_rx' = Append(control_rx, "Stop")
            /\ stop_sent' = TRUE
            /\ stop_in_wait' = (stop_in_wait \/ pc = "backoff")
       ELSE UNCHANGED <<control_rx, stop_sent, stop_in_wait>>
    /\ worker_handle' = "None"
    /\ IF worker_handle = "Some"
       THEN /\ client_pc' = "stop_wait"
            /\ UNCHANGED <<control_tx, is_connected, stop_returned, op>>
       ELSE StopReturns
    /\ UNCHANGED <<config, pc, result, reconnect_count, delay, recv_disabled,
                   sessionVars, rx_count, last_answer, last_outcome, attempts,
                   histCounters, log, rx_log, last_io, sent_log, orphans, httpVars>>

\* variant: stop_background awaits the handle without a timeout
GraceElapsed_never == FALSE

\* the timeout of client.rs:86 can elapse before the worker ends: a handshake
\* is pending, or the worker sleeps longer with its recv branch off
GraceElapsed ==
    \/ pc = "connecting"
    \/ pc = "backoff" /\ recv_disabled /\ delay > GraceSecs

\* timeout(5 s, handle) returns (client.rs:86-92)
StopFinish ==
    /\ client_pc = "stop_wait"
    /\ pc = "done" \/ GraceElapsed
    /\ StopReturns
    /\ UNCHANGED <<config, pc, result, reconnect_count, delay, control_rx,
                   recv_disabled, sessionVars, rx_count, last_answer,
                   last_outcome, attempts, histCounters, log, stop_sent,
                   stop_in_wait, rx_log, last_io, worker_handle, sent_log, orphans,
                   httpVars>>

\* variant: a send to a closed channel is not reported
reconnect_result_nochannel ==
    IF control_tx = "None" THEN "NotConnected" ELSE "Ok"

\* what reconnect returns (client.rs:102-108)
reconnect_result ==
    IF control_tx = "None" THEN "NotConnected"
    ELSE IF ~ReceiverAlive THEN "ChannelError"
    ELSE "Ok"

\* Client::reconnect_websocket (lib.rs:194-203, client.rs:101-109)
ReconnectCall ==
    /\ client_pc = "ready"
    /\ Len(control_rx) < MaxPending
    /\ op' = Returned("reconnect", reconnect_result)
    /\ control_rx' = IF reconnect_result = "Ok" /\ ReceiverAlive
                     THEN Append(control_rx, "Reconnect")
                     ELSE control_rx
    /\ UNCHANGED <<config, pc, result, reconnect_count, is_connected, delay,
                   recv_disabled, sessionVars, rx_count, last_answer,
                   last_outcome, attempts, histCounters, log, stop_sent,
                   stop_in_wait, rx_log, last_io, control_tx, worker_handle,
                   client_pc, stop_returned, sent_log, orphans, httpVars>>

\* Client::is_websocket_connected (lib.rs:182-190, client.rs:96-98)
IsConnectedCall ==
    /\ client_pc = "ready"
    /\ op' = Returned("is_connected", is_connected)
    /\ OnlyReturns

NextClient ==
    \/ StartBackground
    \/ StartBlocking
    \/ BlockingReturn
    \/ StopBegin
    \/ StopFinish
    \/ ReconnectCall
    \/ IsConnectedCall
    \/ RunStart
    \/ ConnectOk
    \/ ConnectFail
    \/ HeartbeatTick
    \/ SessionControl
    \/ BackoffSleepElapsedPrompt
    \/ BackoffRecv

SpecClient == InitClient /\ [][NextClient]_vars

\* ------------------------------------------------------------- paginator
\* An HttpPaginator (paginator.rs) driven by next and collect_all, with an
\* http_fn that answers every request with an error or with a batch of any
\* size around the limit.  The items are numbered in the order received.
wsVars == <<config, pc, result, reconnect_count, is_connected, delay,
            control_rx, recv_disabled, sessionVars, rx_count, last_answer,
            last_outcome, attempts, histCounters, log, stop_sent,
            stop_in_wait, rx_log, last_io, control_tx, worker_handle,
            client_pc, op, stop_returned, sent_log, orphans>>

\* <<limit, offset>> of the HttpPaginationOptions given to new
Paginations ==
    {<<None, None>>, <<Some(1), None>>, <<Some(1), Some(0)>>,
     <<Some(2), Some(3)>>}

HttpOnlyConfig ==
    CHOOSE c \in ClientConfigs : c.setup = "ok" /\ ~c.auto_reconnect

InitPaginator ==
    /\ config = HttpOnlyConfig
    /\ WebSocketClientNew
    /\ \E o \in Paginations :
          paginator = new([limit |-> o[1], offset |-> o[2]])
    /\ http_log = NoLog
    /\ collect = NoCollect
    /\ reader = NoRead

\* the sizes of the batches http_fn answers with
BatchSizes(limit) == {n \in {0, limit - 1, limit, limit + 1} : n >= 0}

Batch(n) == [i \in 1..n |-> Len(http_log.fetched) + i]

\* the answers of http_fn to the next request
Responses ==
    {ErrResponse} \cup
    {OkResponse(Batch(n)) : n \in BatchSizes(paginator.initial_limit)}

\* http_log after a call of fetch_next_batch
LogFetch(l, response) ==
    [l EXCEPT
       !.requests = Append(@, [limit |-> paginator.pagination.limit,
                               offset |-> paginator.pagination.offset,
                               ok |-> response.ok,
                               got |-> Len(response.items)]),
       !.fetched = @ \o response.items]

\* http_log after a call of next that returned item
LogNext(l, item) ==
    [l EXCEPT !.returned = IF item = None THEN @
                           ELSE Append(@, unwrap_or(item, 0)),
              !.last = [item |-> item, k |-> 1 - l.last.k]]

\* one call of next with the answer of http_fn, if it is asked
CallNext(response) ==
    /\ Fetches(paginator) => Len(http_log.requests) < MaxRequests
    /\ ~Fetches(paginator) => response = ErrResponse
    /\ paginator' = next(paginator, response).self
    /\ http_log' = LogNext(IF Fetches(paginator)
                           THEN LogFetch(http_log, response)
                           ELSE http_log,
                           next(paginator, response).item)

\* the application calls HttpPaginator::next (paginator.rs:134-154)
PagNext ==
    /\ collect.state = "idle"
    /\ \E response \in Responses : CallNext(response)
    /\ UNCHANGED <<collect, reader, wsVars>>

\* the application calls collect_all: up to the loop (paginator.rs:158-163)
CollectBegin ==
    /\ collect.state = "idle"
    /\ Len(http_log.returned) <= MaxTaken
    /\ IF paginator.current_batch = <<>> /\ paginator.has_more
       THEN /\ Len(http_log.requests) < MaxRequests
            /\ \E response \in Responses :
                 LET f == fetch_next_batch(paginator, response) IN
                 /\ paginator' = f.self
                 /\ http_log' = LogFetch(http_log, response)
                 /\ collect' = IF f.ret = "Err"
                               THEN [state |-> "Err", items |-> <<>>,
                                     failed |-> TRUE]
                               ELSE [state |-> "running", items |-> <<>>,
                                     failed |-> FALSE]
       ELSE /\ collect' = [collect EXCEPT !.state = "running"]
            /\ UNCHANGED <<paginator, http_log>>
    /\ UNCHANGED <<reader, wsVars>>

\* one turn of the loop of collect_all (paginator.rs:165-169)
CollectStep ==
    /\ collect.state = "running"
    /\ \E response \in Responses :
         /\ CallNext(response)
         /\ collect' =
              LET item == next(paginator, response).item IN
              [state |-> IF item = None THEN "Ok" ELSE "running",
               items |-> IF item = None THEN collect.items
                         ELSE Append(collect.items, unwrap_or(item, 0)),
               failed |-> collect.failed
                          \/ (Fetches(paginator) /\ ~response.ok)]
    /\ UNCHANGED <<reader, wsVars>>

NextPaginator ==
    \/ PagNext
    \/ CollectBegin
    \/ CollectStep

SpecPaginator == InitPaginator /\ [][NextPaginator]_vars

\* ---------------------------------------------------- read_http_response
\* A reqwest::Response as read_http_response looks at it: the status, the
\* Content-Type header and the body.
Statuses == {200, 204, 404, 500}

\* "none": no header; "opaque": a value that is not visible ASCII
ContentTypes ==
    {"none", "opaque", "text/html", "application/json",
     "application/json; charset=utf-8"}

\* the body: whether it parses as JSON, and then its "success" field (absent,
\* a boolean, or of another type), its "error" field and its "response"
\* field (absent, of the type asked for, or of another type)
Bodies ==
    [parses : {TRUE},
     success : {"absent", "true", "false", "nonbool"},
     error : {"absent", "msg"},
     response : {"absent", "value", "illtyped"}]
    \cup {[parses |-> FALSE, success |-> "absent", error |-> "absent",
           response |-> "absent"]}

HttpResponses ==
    [status : Statuses, content_type : ContentTypes, body : Bodies]

\* reqwest::StatusCode::is_success
is_success(status) == status >= 200 /\ status <= 299

\* the header is there, is a string and contains "application/json"
\* (mod.rs:22-26)
is_json(content_type) ==
    content_type \in {"application/json", "application/json; charset=utf-8"}

\* read_http_response (mod.rs:18-69)
read_http_response(response) ==
    IF is_json(response.content_type)
    THEN IF ~response.body.parses
         THEN [kind |-> "RequestError"]
         ELSE IF response.body.success # "true"
         THEN [kind |-> "ApiError",
               message |-> IF response.body.error = "msg" THEN "msg"
                           ELSE "Unknown API error!"]
         ELSE IF response.body.response = "absent"
         THEN [kind |-> "MissingResponseField"]
         ELSE IF response.body.response = "illtyped"
         THEN [kind |-> "JsonError"]
         ELSE [kind |-> "Ok", value |-> "value"]
    ELSE IF ~is_success(response.status)
    THEN [kind |-> "HttpStatus", status |-> response.status]
    ELSE [kind |-> "MissingResponseField"]

InitRead ==
    /\ config = HttpOnlyConfig
    /\ WebSocketClientNew
    /\ paginator = new([limit |-> None, offset |-> None])
    /\ http_log = NoLog
    /\ collect = NoCollect
    /\ \E r \in HttpResponses :
          reader = [response |-> r, result |-> [kind |-> "none"]]

\* a request method hands its response to read_http_response
Read ==
    /\ reader.result.kind = "none"
    /\ reader' = [reader EXCEPT
                    !.result = read_http_response(reader.response)]
    /\ UNCHANGED <<paginator, http_log, collect, wsVars>>

NextRead == Read

SpecRead == InitRead /\ [][NextRead]_vars

\* ================================================================ claims

IsUp(e) == e.src = "local" /\ e.connected
IsDown(e) == e.src = "local" /\ ~e.connected
IsWire(e) == e.src = "wire"
Count(P(_)) == Cardinality({i \in DOMAIN log : P(log[i])})

\* C1: a handshake answered with HTTP 401 ends run with Err(Unauthorized),
\* whatever auto_reconnect and the reconnect counter are, and no connection
\* attempt follows; the error is not the generic connection failure.
C1_UnauthorizedIsFatal ==
    /\ [](last_answer = "Http401" => pc = "done" /\ result = "Unauthorized")
    /\ [][result = "Unauthorized" =>
            attempts' = attempts /\ result' = result /\ pc' = pc]_vars

\* a 401 on a later reconnect attempt, with auto_reconnect on
C1_Witness ==
    /\ result = "Unauthorized"
    /\ config.auto_reconnect
    /\ reconnect_count >= 1
    /\ attempts >= 2

\* C2: once a Stop is on the control channel the worker starts no further
\* connection attempt, and is_connected is false when it has terminated.
C2_StopPreventsAttempts ==
    /\ [][stop_sent => attempts' = attempts]_vars
    /\ [](pc = "done" => ~is_connected)

\* C3: a Stop placed on the channel during a backoff wait (of positive
\* length) ends the worker in that wait: the wait is never left towards a new
\* connection attempt.
C3_StopEndsBackoffWait ==
    [][(pc = "backoff" /\ delay > 0 /\ stop_in_wait) =>
            pc' # "connecting"]_vars

\* C4: with auto_reconnect a handshake failure other than 401 puts the worker
\* in the backoff wait with no error returned, and the wait is left only to
\* a new connection attempt or because a Stop was received.
C4_NetworkFailureRetried ==
    /\ []((config.auto_reconnect /\ last_answer \in {"Http403", "Io"}) =>
            \/ pc = "backoff" /\ result = "none"
            \/ pc = "done" /\ result = "Ok"
                 /\ last_outcome = "stop_in_backoff")
    /\ [][(pc = "backoff" /\ pc' # "backoff") =>
            \/ pc' = "connecting" /\ attempts' = attempts + 1
            \/ pc' = "done" /\ Head(control_rx) = "Stop"]_vars

\* a second failed handshake was retried as well
C4_Witness ==
    /\ config.auto_reconnect
    /\ pc = "connecting"
    /\ attempts = 3
    /\ handshakes_failed = 2
    /\ handshakes_ok = 0

RetriedOutcomes ==
    {"Close", "ReadError", "ping_timeout", "ping_send", "pong_send",
     "Reconnect"}

\* C5: without auto_reconnect there is one connection attempt; a retryable
\* session outcome or a non-401 handshake failure ends the worker with Ok
\* after a disconnect event with reconnect=false.
C5_NoAutoReconnect ==
    ~config.auto_reconnect =>
        /\ attempts <= 1
        /\ (pc = "done" /\ from_config(config) = "ok") => attempts = 1
        /\ (\/ last_outcome \in RetriedOutcomes
            \/ last_outcome = "handshake" /\ last_answer # "Http401") =>
              /\ pc = "done"
              /\ result = "Ok"
              /\ config.callback =>
                    /\ log # <<>>
                    /\ IsDown(log[Len(log)])
                    /\ ~log[Len(log)].reconnect

\* a heartbeat timeout ended the only session
C5_Witness ==
    /\ ~config.auto_reconnect
    /\ config.callback
    /\ last_outcome = "ping_timeout"
    /\ pc = "done"

\* C6: with max_reconnect_attempts = Some(n) the reconnect counter never
\* exceeds n, so at most n reconnect attempts follow the first attempt.
C6_MaxReconnectAttempts ==
    \A n \in config.max_reconnect_attempts :
        reconnect_count <= n /\ attempts <= n + 1

\* C7: the wait before the N-th reconnect attempt is
\* min(reconnect_interval * N, 60 s), never above 60 s and never shrinking.
C7_BackoffDelay ==
    /\ [](pc = "backoff" =>
            delay = Min(config.reconnect_interval * attempts, 60))
    /\ [](delay <= 60)
    /\ [][delay' >= delay]_vars

\* 25 s * 3 is capped
C7_Witness ==
    /\ pc = "backoff"
    /\ config.reconnect_interval = 25
    /\ attempts = 3
    /\ handshakes_ok >= 1
    /\ delay = 60

\* C8: the counter starts at 0, grows by exactly 1 when an attempt ends and
\* is retried, and changes at no other step: it equals the number of
\* attempts that ended and were retried, successful handshakes included.
C8_ReconnectCounter ==
    /\ reconnect_count = 0
    /\ [][IF pc \in {"connecting", "session"} /\ pc' = "backoff"
          THEN reconnect_count' = reconnect_count + 1
          ELSE reconnect_count' = reconnect_count]_vars
    /\ [](pc \in {"connecting", "session"} => reconnect_count = attempts - 1)
    /\ [](pc = "backoff" =>
            /\ reconnect_count = attempts
            /\ delay = Min(config.reconnect_interval * reconnect_count, 60))

\* the wait after a session that followed one earlier retry uses 2
C8_Witness ==
    /\ pc = "backoff"
    /\ reconnect_count = 2
    /\ handshakes_failed = 1
    /\ sessions_ended = 1
    /\ last_outcome = "Close"
    /\ config.reconnect_interval = 25
    /\ delay = 50

\* C9: is_connected is true only during a session: it is false before and
\* during every handshake, during every backoff wait and after termination.
C9_FlagOnlyInSession ==
    is_connected => pc = "session"

\* the flag is down in the wait that follows a session
C9_Witness ==
    /\ pc = "backoff"
    /\ sessions_ended >= 1
    /\ last_outcome # "handshake"
    /\ ~is_connected

\* C10: status events follow the transport: one connected=true per
\* successful handshake, one connected=false per ended session (and per
\* failed handshake), never two connected=true in a row, and a decoded wire
\* event only while the last status event is connected=true.
C10_StatusEventOrder ==
    /\ config.callback =>
          /\ Count(IsUp) = handshakes_ok
          /\ Count(IsDown) = sessions_ended + handshakes_failed
    /\ \A i, j \in DOMAIN log :
          (i < j /\ IsUp(log[i]) /\ IsUp(log[j])) =>
              \E k \in (i + 1)..(j - 1) : IsDown(log[k])
    /\ \A i \in DOMAIN log :
          IsWire(log[i]) =>
              \E j \in 1..(i - 1) :
                  /\ IsUp(log[j])
                  /\ \A k \in (j + 1)..(i - 1) : IsWire(log[k])

\* up, wire event, down, up again
C10_Witness ==
    /\ Len(log) >= 4
    /\ IsUp(log[1])
    /\ IsWire(log[2])
    /\ IsDown(log[3])
    /\ IsUp(log[4])


\* ------------------------------------------------------------------ C11
IsLocal(e) == e.src = "local"
StatusLog == SelectSeq(log, IsLocal)
HasStatus == StatusLog # <<>>
LastStatus == StatusLog[Len(StatusLog)]

\* C11 as stated: the reconnect field tells whether another attempt is made,
\* so the last status event of a worker that ended with Ok has
\* reconnect = false.
C11_LastEventSaysNoRetry ==
    (pc = "done" /\ result = "Ok" /\ HasStatus) => ~LastStatus.reconnect

\* C11 amended: the reconnect field of a disconnect event is the retry
\* decision taken when it is emitted.  After reconnect = true the worker waits
\* out the backoff and starts another attempt unless it receives a Stop during
\* that wait, in which case it ends with Ok and emits nothing more; after
\* reconnect = false it starts no attempt.  The last status event of a worker
\* that ended with Ok has reconnect = false unless the worker was stopped
\* during a backoff wait.
C11_ReconnectFieldIsDecision ==
    [][ /\ (Len(log') > Len(log) /\ IsDown(log'[Len(log')])) =>
              (log'[Len(log')].reconnect <=> pc' = "backoff")
        /\ (pc = "backoff" /\ pc' # "backoff") =>
              \/ pc' = "connecting" /\ attempts' = attempts + 1
              \/ /\ pc' = "done" /\ result' = "Ok"
                 /\ last_outcome' = "stop_in_backoff"
                 /\ control_rx # <<>> /\ Head(control_rx) = "Stop"
                 /\ log' = log
        /\ (pc' = "done" /\ result' = "Ok" /\ HasStatus'
              /\ LastStatus'.reconnect) => last_outcome' = "stop_in_backoff"
        /\ pc = "done" => attempts' = attempts ]_vars

C11_Witness ==
    /\ pc = "done" /\ result = "Ok" /\ last_outcome = "stop_in_backoff"
    /\ HasStatus /\ IsDown(LastStatus) /\ LastStatus.reconnect
    /\ handshakes_ok >= 1

\* ------------------------------------------------------------------ C12
\* C12 as stated: whenever a connection-status event is delivered to the
\* callback, is_connected() equals the connected field of that event.
C12_FlagMatchesEvent ==
    \A i \in 1..Len(log) : IsLocal(log[i]) => log[i].flag = log[i].connected

\* ------------------------------------------------------------------ C13
\* a step of the heartbeat branch: taken in a session, it reads no frame,
\* takes no command and is not the passing of time
TickStep ==
    /\ pc = "session"
    /\ rx_count' = rx_count
    /\ control_rx' = control_rx
    /\ ~(pc' = "session" /\ now' # now)
    /\ vars' # vars

\* the outcome Ok(true) as run acts on it
ReconnectOutcome ==
    /\ pc' = IF config.auto_reconnect THEN "backoff" ELSE "done"
    /\ result' = IF config.auto_reconnect THEN "none" ELSE "Ok"
    /\ IsDown(LastStatus') /\ LastStatus'.reconnect = config.auto_reconnect

TimedOut ==
    waiting_for_pong /\ now - last_pong_time > config.ping_timeout

PingSent ==
    /\ pc' = "session"
    /\ waiting_for_pong'
    /\ pings_unanswered' = pings_unanswered + 1
    /\ last_io'.sent = "ok"

\* C14 as stated: a tick ends the session with the reconnect outcome exactly
\* when a ping is outstanding and more than ping_timeout has passed since the
\* last pong; every other tick sends a ping and sets waiting_for_pong.
C14_TickDecision ==
    [][ TickStep =>
          IF TimedOut
          THEN last_outcome' = "ping_timeout" /\ ReconnectOutcome
          ELSE PingSent ]_vars

\* C14 amended: as stated, except that a tick whose ping cannot be written
\* also ends the session with the reconnect outcome and leaves
\* waiting_for_pong as it was.
C14_TickDecisionOrSendFailure ==
    [][ TickStep =>
          IF TimedOut
          THEN last_outcome' = "ping_timeout" /\ ReconnectOutcome
          ELSE \/ PingSent
               \/ /\ last_io'.sent = "failed"
                  /\ last_outcome' = "ping_send"
                  /\ ReconnectOutcome ]_vars

C14_Witness ==
    /\ pc = "session" /\ waiting_for_pong /\ pings_unanswered = 2
    /\ now - last_pong_time = config.ping_timeout
    /\ last_io = Io("none", TRUE)

\* ------------------------------------------------------------------ C15
\* C15 as stated: a session never has two pings in flight.
C15_OnePingInFlight == pings_unanswered <= 1

\* C15 amended: a tick that finds an earlier ping unanswered sends another
\* ping as long as no more than ping_timeout has passed since the last pong,
\* so up to ping_timeout / ping_interval + 1 pings are in flight at once;
\* waiting_for_pong tells whether there is at least one.
C15_PingsInFlightBounded ==
    /\ pings_unanswered <= (config.ping_timeout \div config.ping_interval) + 1
    /\ pc = "session" => (waiting_for_pong <=> pings_unanswered >= 1)

C15_Witness ==
    /\ pc = "session" /\ pings_unanswered = 3
    /\ config.ping_interval = 1 /\ config.ping_timeout = 2

\* ------------------------------------------------------------------ C16
Max(a, b) == IF a > b THEN a ELSE b

\* a step of the read branch: one more frame has been read
FrameStep == pc = "session" /\ rx_count' = rx_count + 1

\* C16: a Pong frame, with or without a ping outstanding, clears
\* waiting_for_pong and sets last_pong_time to the current instant; a frame
\* of any other kind that leaves the session running changes neither, so
\* whatever else the peer sends, a session with a ping outstanding does not
\* outlive the first tick that follows both the ping and last_pong_time +
\* ping_timeout.
C16_OnlyPongResets ==
    /\ [][ FrameStep =>
             IF last_io'.frame = "Pong"
             THEN /\ pc' = "session"
                  /\ ~waiting_for_pong'
                  /\ last_pong_time' = now /\ now' = now
             ELSE pc' = "session" =>
                    /\ waiting_for_pong' = waiting_for_pong
                    /\ last_pong_time' = last_pong_time ]_vars
    /\ [](pc = "session" /\ waiting_for_pong =>
            now - last_pong_time <=
                Max(config.ping_timeout, config.ping_interval)
                    + config.ping_interval)

C16_Witness ==
    /\ pc = "session" /\ last_io.frame = "Pong"
    /\ ~waiting_for_pong /\ last_pong_time = now /\ now >= 1
    /\ rx_count = 2

\* ------------------------------------------------------------------ C17
Decodes(frame) == from_str(frame) # "Err"
WireLog == SelectSeq(log, IsWire)
DecodedLog == SelectSeq(rx_log, Decodes)

\* C17: with a callback set, the messages handed to the callback are the
\* decoded values of the text frames that decode, one invocation each, in
\* arrival order; a text frame that does not decode invokes nothing and
\* leaves the session running with its heartbeat state as it was.
C17_TextFramesToCallback ==
    /\ [](config.callback =>
            /\ Len(WireLog) = Len(DecodedLog)
            /\ \A i \in 1..Len(WireLog) :
                  WireLog[i].type = from_str(DecodedLog[i]))
    /\ [][ (FrameStep /\ IsText(last_io'.frame)) =>
             /\ pc' = "session"
             /\ UNCHANGED <<waiting_for_pong, last_pong_time, next_tick, now,
                            pings_unanswered, first_ping>>
             /\ log' = IF Decodes(last_io'.frame) /\ config.callback
                       THEN Append(log, WireEvent(from_str(last_io'.frame),
                                                  TRUE))
                       ELSE log ]_vars

C17_Witness ==
    /\ pc = "session" /\ config.callback
    /\ rx_log = <<"TextInvalid", "TextIncoming">>
    /\ Len(WireLog) = 1 /\ WireLog[1].type = "incoming"
    /\ waiting_for_pong

\* ------------------------------------------------------------------ C18
\* C18 as stated: every WebsocketConnectionUpdate handed to the callback was
\* generated by the worker; none comes from a frame read off the wire.
C18_StatusEventsAreLocal ==
    \A i \in 1..Len(log) :
        log[i].type = "WebsocketConnectionUpdate" => IsLocal(log[i])

\* ------------------------------------------------------------------ C19
\* C19: with auto_reconnect, a close frame or a read error at any point of a
\* session ends it with the reconnect outcome: the callback, which saw
\* connected = true for this session, gets connected = false with
\* reconnect = true, the worker is not done, it waits the computed backoff,
\* and the wait is left for a new connection attempt (or by a Stop received
\* during the wait).
C19_PeerCloseIsReconnect ==
    /\ [][ (FrameStep /\ last_io'.frame \in {"Close", "ReadError"}
              /\ config.auto_reconnect) =>
             /\ pc' = "backoff" /\ result' = "none"
             /\ last_outcome' = last_io'.frame
             /\ reconnect_count' = reconnect_count + 1
             /\ delay' = Min(config.reconnect_interval * reconnect_count',
                             BackoffCapSecs)
             /\ config.callback =>
                  /\ IsUp(LastStatus)
                  /\ StatusLog' = Append(StatusLog, LastStatus')
                  /\ IsDown(LastStatus') /\ LastStatus'.reconnect ]_vars
    /\ [][ (pc = "backoff" /\ last_outcome \in {"Close", "ReadError"}
              /\ pc' # "backoff") =>
             \/ pc' = "connecting" /\ attempts' = attempts + 1
             \/ control_rx # <<>> /\ Head(control_rx) = "Stop" ]_vars
    /\ [](pc = "backoff" /\ attempts < MaxAttempts =>
            ENABLED BackoffSleepElapsed)

C19_Witness ==
    /\ pc = "backoff" /\ last_outcome = "ReadError" /\ config.auto_reconnect
    /\ delay = 25 /\ handshakes_ok = 1
    /\ HasStatus /\ IsDown(LastStatus) /\ LastStatus.reconnect

\* ------------------------------------------------------------------ C20
\* a step of the control branch of the session
ControlStep ==
    /\ pc = "session"
    /\ control_rx # <<>>
    /\ control_rx' = Tail(control_rx)

\* C20: a Stop taken by the session ends the worker, for every auto_reconnect
\* and whether or not the close frame could be written: one disconnect event
\* with reconnect = false, is_connected false, result Ok, and no attempt
\* afterwards.
C20_StopAlwaysStops ==
    /\ [][ (ControlStep /\ Head(control_rx) = "Stop") =>
             /\ pc' = "done" /\ result' = "Ok"
             /\ ~is_connected'
             /\ last_outcome' = "Stop"
             /\ attempts' = attempts
             /\ config.callback =>
                  /\ Len(log') = Len(log) + 1
                  /\ IsDown(log'[Len(log')])
                  /\ ~log'[Len(log')].reconnect ]_vars
    /\ [][ pc = "done" => (pc' = "done" /\ attempts' = attempts
                             /\ log' = log) ]_vars

C20_Witness ==
    /\ pc = "done" /\ result = "Ok" /\ last_outcome = "Stop"
    /\ last_io.sent = "failed"
    /\ config.auto_reconnect /\ ~is_connected
    /\ HasStatus /\ IsDown(LastStatus) /\ ~LastStatus.reconnect

\* ------------------------------------------------------------------ C21
\* C21 as stated: a Reconnect taken by a session tears the session down and
\* the next connection attempt starts without a backoff wait.
C21_ReconnectRetriesAtOnce ==
    [][ (ControlStep /\ Head(control_rx) = "Reconnect") =>
          /\ pc' \in {"backoff", "connecting"}
          /\ delay' = 0 ]_vars

\* ------------------------------------------------------------------ C24
\* C24: a handshake answered with 401 ends the worker with no callback
\* invocation for that attempt, no backoff wait and is_connected false; when
\* it is the first attempt the callback has never been invoked.
C24_UnauthorizedIsSilent ==
    /\ [][ (pc = "connecting" /\ pc' # "connecting"
              /\ last_answer' = "Http401") =>
             /\ log' = log
             /\ pc' = "done" /\ result' = "Unauthorized"
             /\ ~is_connected'
             /\ delay' = delay /\ reconnect_count' = reconnect_count ]_vars
    /\ [](result = "Unauthorized" =>
            /\ last_answer = "Http401" /\ pc = "done" /\ ~is_connected
            /\ attempts = 1 => log = <<>>)

C24_Witness ==
    /\ result = "Unauthorized" /\ config.callback
    /\ attempts = 2 /\ handshakes_ok = 1
    /\ HasStatus /\ IsDown(LastStatus) /\ LastStatus.reconnect
    /\ Count(IsUp) = 1 /\ Count(IsDown) = 1

\* ------------------------------------------------------------------ C22
\* a step in which the worker takes a command off the channel, and the
\* sent_log entry of that command
ConsumeStep == control_rx # <<>> /\ control_rx' = Tail(control_rx)
ConsumedIdx == Len(sent_log) - Len(control_rx) + 1
Consumed == sent_log[ConsumedIdx]

\* C22 as stated: a Reconnect sent while no session is active changes
\* nothing: when the worker takes it off the channel, no session ends, no
\* callback is invoked and the worker stays where it is.
C22_IdleReconnectIsNoOp ==
    [][ (ConsumeStep /\ Consumed.cmd = "Reconnect"
           /\ Consumed.at \in {"start", "connecting", "backoff"}) =>
          (pc' = pc /\ log' = log /\ sessions_ended' = sessions_ended) ]_vars

\* ------------------------------------------------------------------ C23
\* C23 as stated: of two equal commands sent in a row during the same attempt
\* the second changes nothing: taking it off the channel ends no session,
\* invokes no callback and does not change how the worker reacts to the
\* commands that follow.
C23_SecondCommandIsNoOp ==
    [][ (ConsumeStep /\ ConsumedIdx >= 2
           /\ sent_log[ConsumedIdx - 1].cmd = Consumed.cmd
           /\ sent_log[ConsumedIdx - 1].n = Consumed.n) =>
          /\ pc' = pc /\ log' = log /\ sessions_ended' = sessions_ended
          /\ recv_disabled' = recv_disabled ]_vars

\* ------------------------------------------------------------------ C29
StopQueued == \E i \in 1..Len(control_rx) : control_rx[i] = "Stop"

\* the exploration stops at MaxAttempts: a wait whose recv branch is off
\* cannot be followed further
WaitAtBound ==
    pc = "backoff" /\ attempts = MaxAttempts /\ recv_disabled /\ StopQueued

\* C29: when select! polls its ready branches fairly and every connect()
\* returns, a worker to which a Stop has been sent terminates; no command is
\* taken off the channel while a handshake is pending, and a Stop that the
\* worker takes, in a session or in a backoff wait, ends the worker in that
\* step.
C29_StopNeverLost ==
    /\ (stop_sent ~> (pc = "done" \/ WaitAtBound))
    /\ [][ (pc = "start" \/ pc = "connecting") =>
             Len(control_rx') >= Len(control_rx) ]_vars
    /\ [][ (ConsumeStep /\ Head(control_rx) = "Stop") =>
             (pc \in {"session", "backoff"} /\ pc' = "done"
                /\ result' = "Ok") ]_vars

C29_Witness ==
    /\ pc = "done" /\ result = "Ok" /\ last_outcome = "Stop"
    /\ Len(sent_log) = 2
    /\ sent_log[1].cmd = "Reconnect" /\ sent_log[1].at = "backoff"
    /\ sent_log[2].cmd = "Stop" /\ sent_log[2].at = "connecting"

\* ------------------------------------------------------------------ C25
\* a client call returns in this step
Returns(call) == op'.k # op.k /\ op'.name = call

SetupErrors == {"UrlError", "InvalidHeader", "TLSError"}

\* C25 as stated: start_background and start_blocking return Ok,
\* Unauthorized or a setup error, nothing else.
C25_StartErrorsOnlyFatal ==
    op.name \in {"start_background", "start_blocking"} =>
        op.result \in {"Ok", "Unauthorized"} \cup SetupErrors

\* C25 amended: start_blocking returns what run returns, which is Ok,
\* Unauthorized or a setup error; start_background returns AlreadyConnected
\* when a worker handle is held and Ok otherwise, and nothing else; every
\* other failure of the worker shows only in status events.
C25_StartErrors ==
    /\ [][ Returns("start_blocking") =>
             /\ op'.result = result
             /\ result \in {"Ok", "Unauthorized"} \cup SetupErrors ]_vars
    /\ [][ Returns("start_background") =>
             op'.result = IF worker_handle = "Some" THEN "AlreadyConnected"
                          ELSE "Ok" ]_vars
    /\ [](result \in {"none", "Ok", "Unauthorized"} \cup SetupErrors)

C25_Witness ==
    /\ op.name = "start_background" /\ op.result = "AlreadyConnected"
    /\ pc = "done" /\ result = "Unauthorized"

\* ------------------------------------------------------------------ C26
\* C26: stop_background returns Ok, also while a handshake keeps the worker
\* from ending; when it returns is_connected is false, the control sender is
\* cleared, so that reconnect answers NotConnected, and the handle is
\* released, so that start_background answers Ok; a live worker has been sent
\* a Stop.
C26_StopBackgroundReturns ==
    /\ [][ Returns("stop_background") =>
             /\ op'.result = "Ok"
             /\ ~is_connected'
             /\ control_tx' = "None" /\ worker_handle' = "None"
             /\ client_pc' = "ready" /\ stop_returned' ]_vars
    /\ [](stop_returned =>
            /\ reconnect_result = "NotConnected"
            /\ start_background_result = "Ok")
    /\ [](client_pc = "stop_wait" =>
            /\ pc = "connecting" => ENABLED StopFinish
            /\ pc = "done" => ENABLED StopFinish
            /\ (stop_sent \/ pc = "done") /\ worker_handle = "None")

C26_Witness ==
    /\ stop_returned /\ op.name = "stop_background"
    /\ pc = "connecting" /\ control_rx = <<"Stop">>
    /\ ~is_connected /\ control_tx = "None" /\ worker_handle = "None"

\* ------------------------------------------------------------------ C27
\* C27: reconnect returns NotConnected when the control sender is absent
\* (never started, or stop_background has returned), ChannelError when the
\* sender is there and run has returned, and Ok otherwise; only with Ok is a
\* Reconnect queued, and an error leaves everything as it was.
C27_ReconnectErrors ==
    /\ [][ Returns("reconnect") =>
             /\ op'.result =
                  IF control_tx = "None" THEN "NotConnected"
                  ELSE IF pc = "done" THEN "ChannelError"
                  ELSE "Ok"
             /\ control_rx' = IF op'.result = "Ok"
                              THEN Append(control_rx, "Reconnect")
                              ELSE control_rx
             /\ UNCHANGED <<control_tx, worker_handle, is_connected, pc,
                            client_pc>> ]_vars
    /\ []((pc = "idle" \/ stop_returned) => control_tx = "None")
    /\ [](control_tx = "Some" => pc # "idle")

C27_Witness ==
    /\ op.name = "reconnect" /\ op.result = "ChannelError"
    /\ pc = "done" /\ result = "Ok" /\ control_tx = "Some"
    /\ worker_handle = "Some" /\ ~config.auto_reconnect

\* ------------------------------------------------------------------ C28
\* C28 as stated: while a task is inside start_blocking_websocket and the
\* worker runs, is_websocket_connected, reconnect_websocket and
\* stop_background_websocket can complete.
C28_CallsDoNotWaitForWorker ==
    (client_pc = "blocking" /\ pc # "done") =>
        /\ ENABLED IsConnectedCall
        /\ ENABLED ReconnectCall
        /\ ENABLED StopBegin

\* ------------------------------------------------------------------ C30
\* C30 as stated: from the return of stop_background to the next start,
\* is_connected stays false and the callback is not invoked.
C30_QuietAfterStop ==
    [][ (stop_returned /\ stop_returned') =>
          (~is_connected' /\ log' = log) ]_vars

\* ------------------------------------------------------------------ C31
\* the sender the client holds reaches a receiver that is still there
ChannelLive == control_tx = "Some" /\ ReceiverAlive

C32_TimeoutOnlyForOldPing ==
    [][ (TickStep /\ pc' # "session" /\ last_outcome' = "ping_timeout") =>
          (first_ping # -1 /\ now - first_ping >= config.ping_timeout) ]_vars

\* ------------------------------------------------------------------ C33
\* C33: the step that reads a Ping frame writes one Pong with the payload of
\* that Ping, and no other read writes a Pong; when the write succeeds the
\* session goes on untouched, and when it fails the session ends as a
\* retryable failure: a disconnect event with reconnect = auto_reconnect,
\* then the backoff wait if auto_reconnect and the return of Ok if not.  run
\* never returns the send error.
C33_PingAnsweredByPong ==
    /\ [][ (FrameStep /\ last_io'.frame = "Ping") =>
             /\ last_io'.pong = last_io'.data
             /\ IF last_io'.sent = "ok"
                THEN /\ pc' = "session"
                     /\ UNCHANGED <<log, waiting_for_pong, last_pong_time,
                                    control_rx, is_connected>>
                ELSE /\ last_outcome' = "pong_send"
                     /\ ReconnectOutcome
                     /\ Len(log') = Len(log) + 1 ]_vars
    /\ [][ (FrameStep /\ last_io'.frame # "Ping") =>
             last_io'.pong = "none" ]_vars
    /\ [](result \in {"none", "Ok"})

C33_Witness ==
    /\ last_outcome = "pong_send" /\ pc = "backoff"
    /\ last_io.frame = "Ping" /\ last_io.sent = "failed"
    /\ last_io.data = <<1>> /\ last_io.pong = <<1>>
    /\ rx_count = 2

\* ------------------------------------------------------------------ C34
\* C34: the connection descriptor is built at the entry of run and nowhere
\* else: when the configuration cannot be turned into one, run returns that
\* very error in its first step, with no connection attempt, no callback
\* invocation and is_connected as it was; when it can, the configuration is
\* the same at every attempt and no later step returns a setup error.
C34_DescriptorBuiltOnce ==
    /\ [][ (result = "none" /\ result' \in SetupErrors) =>
             /\ pc = "start" /\ pc' = "done"
             /\ result' = config.setup
             /\ UNCHANGED <<attempts, log, is_connected, histCounters,
                            control_rx>> ]_vars
    /\ [](config.setup # "ok" =>
            /\ attempts = 0 /\ log = <<>> /\ ~is_connected
            /\ pc \in {"start", "done"}
            /\ pc = "done" => result = config.setup)
    /\ [](config.setup = "ok" => result \notin SetupErrors)
    /\ [][config' = config]_vars

C34_Witness ==
    /\ pc = "done" /\ result = "InvalidHeader"
    /\ attempts = 0 /\ log = <<>> /\ ~is_connected
    /\ control_rx = <<"Reconnect">>

\* ------------------------------------------------------------------ C35
RECURSIVE ReceivedBefore(_)
\* the items received by the requests before the i-th
ReceivedBefore(i) ==
    IF i <= 1 THEN 0
    ELSE ReceivedBefore(i - 1) + http_log.requests[i - 1].got

\* the offset the paginator was created with, 0 when none was set
InitialOffset ==
    IF http_log.requests = <<>> THEN unwrap_or(paginator.pagination.offset, 0)
    ELSE unwrap_or(http_log.requests[1].offset, 0)

\* C35: the items next has returned, followed by the ones still buffered,
\* are the items of the batches received, in the order received and each
\* once; when nothing is left they are all returned; and once items have
\* been received every request carries the initial offset (0 when none was
\* set) plus the number of items received before it, as does the offset kept
\* for the next request.
C35_ItemsAndOffset ==
    /\ http_log.returned \o paginator.current_batch = http_log.fetched
    /\ \A i \in 1..Len(http_log.fetched) : http_log.fetched[i] = i
    /\ ~has_more(paginator) => http_log.returned = http_log.fetched
    /\ \A i \in 1..Len(http_log.requests) :
          ReceivedBefore(i) > 0 =>
             http_log.requests[i].offset =
                Some(InitialOffset + ReceivedBefore(i))
    /\ http_log.fetched # <<>> =>
          paginator.pagination.offset =
             Some(InitialOffset + Len(http_log.fetched))

C35_Witness ==
    /\ Len(http_log.requests) = 3
    /\ http_log.requests[1].offset = Some(3)
    /\ \A i \in 1..3 : http_log.requests[i].ok
    /\ http_log.requests[1].got = 2 /\ http_log.requests[2].got = 3
    /\ http_log.requests[3].got = 1
    /\ http_log.returned = <<1, 2, 3, 4, 5, 6>>
    /\ paginator.pagination.offset = Some(9)
    /\ collect.state = "idle"

\* ------------------------------------------------------------------ C36
\* C36 as stated: collect_all returns Ok only when no request made during
\* the collection failed and the end of the data was seen (a batch came back
\* empty or short), and then with every item that remained.
C36_CollectAllOrErr ==
    collect.state = "Ok" =>
        /\ ~collect.failed
        /\ ~paginator.has_more
        /\ http_log.returned = http_log.fetched

\* ------------------------------------------------------------------ C37
\* next returns in this step
NextReturns == http_log'.last.k # http_log.last.k

\* http_fn was called in this step, and what it answered
Requested == Len(http_log'.requests) = Len(http_log.requests) + 1
Answer == http_log'.requests[Len(http_log'.requests)]

\* C37: a call of next whose request fails returns None and leaves the
\* paginator as it was, offset, has_more and buffer, so that has_more()
\* still answers true; and the request that follows a failed one asks for
\* the same page.
C37_FailedFetchKeepsState ==
    /\ [][ (NextReturns /\ Requested /\ ~Answer.ok) =>
             /\ http_log'.last.item = None
             /\ paginator' = paginator
             /\ has_more(paginator')
             /\ UNCHANGED <<http_log.returned, http_log.fetched>> ]_vars
    /\ [](\A i \in 1..(Len(http_log.requests) - 1) :
            ~http_log.requests[i].ok =>
               /\ http_log.requests[i + 1].limit = http_log.requests[i].limit
               /\ http_log.requests[i + 1].offset =
                     http_log.requests[i].offset)

C37_Witness ==
    /\ Len(http_log.requests) = 3
    /\ http_log.requests[1].ok /\ http_log.requests[1].got = 2
    /\ ~http_log.requests[2].ok
    /\ http_log.requests[3].ok /\ http_log.requests[3].got = 1
    /\ http_log.requests[3].offset = Some(5)
    /\ http_log.returned = <<1, 2, 3>>
    /\ collect.state = "idle"

\* ------------------------------------------------------------------ C38
\* the batch limit: the configured one, 50 when none is set
BatchLimit == unwrap_or(paginator.pagination.limit, 50)

\* the answer ends the data: no items, or fewer than the limit
EndsData(request) == request.ok /\ request.got < BatchLimit

\* C38: a request answered with no items or with fewer than the limit is
\* the last one: next hands out what is buffered and then answers None
\* without calling http_fn; a request answered with at least the limit is
\* followed by one more request, made by the call of next that finds the
\* buffer drained, while a call that finds items buffered makes none.
C38_StopsAtEndOfData ==
    /\ [](\A i \in 1..Len(http_log.requests) :
            EndsData(http_log.requests[i]) =>
               /\ i = Len(http_log.requests)
               /\ ~paginator.has_more)
    /\ [](\A i \in 1..Len(http_log.requests) :
            (i = Len(http_log.requests) /\ http_log.requests[i].ok
               /\ ~EndsData(http_log.requests[i])) => paginator.has_more)
    /\ [][ (NextReturns /\ paginator.current_batch # <<>>) =>
             /\ ~Requested
             /\ http_log'.last.item = Some(Head(paginator.current_batch)) ]_vars
    /\ [][ (NextReturns /\ paginator.current_batch = <<>>) =>
             IF paginator.has_more
             THEN Requested
             ELSE /\ http_log'.last.item = None
                  /\ UNCHANGED <<paginator, http_log.requests>> ]_vars

C38_Witness ==
    /\ paginator.pagination.limit = None
    /\ Len(http_log.requests) = 2
    /\ http_log.requests[1].got = 50 /\ http_log.requests[2].got = 49
    /\ Len(http_log.returned) = 99
    /\ http_log.last = [item |-> None, k |-> 0]
    /\ ~has_more(paginator)

\* ------------------------------------------------------------------ C39
ReadErrors == {"HttpStatus", "ApiError", "MissingResponseField", "JsonError"}

\* C39 as stated: read_http_response returns a value only for a response
\* with status 200 whose JSON body has success = true and a response field,
\* and for every other response one of the errors HttpStatus, ApiError,
\* MissingResponseField and JsonError.
C39_ValueOnlyFor200Success ==
    reader.result.kind # "none" =>
        IF reader.result.kind = "Ok"
        THEN /\ reader.response.status = 200
             /\ reader.response.body.parses
             /\ reader.response.body.success = "true"
             /\ reader.response.body.response # "absent"
        ELSE reader.result.kind \in ReadErrors
====
